---- MODULE Spec2Model ----
(***************************************************************************)
(* Model of pyemma.msm.estimators.estimated_msm.EstimatedMSM: the mapping  *)
(* between the full and the active state space, the per-frame trajectory   *)
(* weights, the cached active-state index table, the index samplers, the   *)
(* synthetic trajectory generator and the statistics over an ensemble of   *)
(* sampled models.                                                         *)
(*                                                                         *)
(* Arrays are sequences; the code's 0-based index i is position i+1, see   *)
(* At.  Labels, active-space indexes and the (traj, t) pairs keep the      *)
(* code's 0-based values.  Floating-point probabilities are exact          *)
(* rationals: the stationary distribution is given in units of 1/PiUnit    *)
(* and a normalized weight is the pair <<numerator, denominator>>; the     *)
(* transition matrix is given in units of 1/PUnit.                         *)
(***************************************************************************)
EXTENDS Integers, Sequences, FiniteSets, TLC

\* ------------------------------------------------------------------ bounds
\* number of distinct labels the discrete trajectories draw from
NStatesFull == 2
\* frames in all trajectories together, for the specification of the data
\* operations and for those that also sample
MaxFrames == 3
MaxFramesS == 2
\* resolution of probabilities: a probability is k/PiUnit
PiUnit == 3
\* largest nsample, largest number of distributions in one call
MaxSample == 2
MaxDist == 2
\* resolution of the transition matrix: an entry is k/PUnit
PUnit == 2
\* largest N and largest stride of a generate_traj call
MaxN == 3
MaxStride == 2
\* numbers held by all members of an ensemble together, and their largest
MaxCells == 4
MaxValue == 1
\* concurrent callers of active_state_indexes
NCallers == 2
\* in-place changes the caller makes to the arguments after __init__
MaxMutations == 1

\* ------------------------------------------------------------ array helpers
At(seq, i) == seq[i + 1]

Range(seq) == {seq[k] : k \in 1..Len(seq)}

RECURSIVE SumSeq(_)
SumSeq(seq) == IF seq = <<>> THEN 0 ELSE seq[1] + SumSeq(Tail(seq))

RECURSIVE SumSeqSeq(_)
SumSeqSeq(ss) == IF ss = <<>> THEN 0 ELSE SumSeq(ss[1]) + SumSeqSeq(Tail(ss))

SetMin(S) == CHOOSE x \in S : \A y \in S : x <= y

RECURSIVE SortedSeq(_)
SortedSeq(S) == IF S = {} THEN <<>>
                ELSE <<SetMin(S)>> \o SortedSeq(S \ {SetMin(S)})

Filled(n, v) == [k \in 1..n |-> v]

ARange(n) == [k \in 1..n |-> k - 1]

\* numpy index normalisation: 0..n-1 as is, -n..-1 counted from the end,
\* anything else is an IndexError (reported as n)
NpIndex(i, n) == IF i \in 0..(n - 1) THEN i
                 ELSE IF i \in (0 - n)..(0 - 1) THEN i + n
                 ELSE n

NpIndexError(idx, n) == \E k \in 1..Len(idx) : NpIndex(idx[k], n) = n

\* arr[idx] = vals for in-range idx and Len(vals) = Len(idx); with repeated
\* positions the last assignment wins
RECURSIVE NpSetItems(_, _, _)
NpSetItems(arr, idx, vals) ==
    IF idx = <<>> THEN arr
    ELSE NpSetItems([arr EXCEPT ![NpIndex(idx[1], Len(arr)) + 1] = vals[1]],
                    Tail(idx), Tail(vals))

\* ------------------------------------------------------------------ inputs
Labels == 0..(NStatesFull - 1)

Trajs(len) == [1..len -> Labels]

\* every list of non-empty trajectories with at most maxFrames frames in all
RECURSIVE DtrajsUpTo(_)
DtrajsUpTo(maxFrames) ==
    IF maxFrames = 0 THEN {}
    ELSE UNION {{<<first>> \o rest :
                    first \in Trajs(len),
                    rest \in {<<>>} \cup DtrajsUpTo(maxFrames - len)} :
                len \in 1..maxFrames}

MaxLabel(dtrajs) ==
    LET used == UNION {Range(dtrajs[k]) : k \in 1..Len(dtrajs)}
    IN  CHOOSE x \in used : \A y \in used : y <= x

\* the count matrix C_full is counted from dtrajs: one row per label up to
\* the largest one observed
ShapeCFull(dtrajs) == MaxLabel(dtrajs) + 1

\* active sets handed to the constructor: strictly increasing sequences of
\* at most n labels, labels in range and out of it on either side
ActiveSetInputs(n) ==
    {SortedSeq(S) :
        S \in {T \in SUBSET ((0..n) \cup {0 - 1, 0 - (n + 1)}) :
                  Cardinality(T) \in 1..n}}

\* stationary distributions of a transition matrix over len states: every
\* state of the chain has positive probability
PiInputs(len) == {p \in [1..len -> 1..PiUnit] : SumSeq(p) = PiUnit}

\* a row of a transition matrix over len states
Rows(len) == {r \in [1..len -> 0..PUnit] : SumSeq(r) = PUnit}

\* p is stationary under P: sum_i p[i] P[i][j] = p[j]
IsStationary(p, P) ==
    \A j \in 1..Len(p) :
        SumSeq([i \in 1..Len(p) |-> p[i] * P[i][j]]) = p[j] * PUnit

\* the transition matrices handed to the constructor, by the stationary
\* distribution the superclass derives from them
PTable ==
    [len \in 1..NStatesFull |->
        [p \in PiInputs(len) |->
            {P \in [1..len -> Rows(len)] : IsStationary(p, P)}]]

TransitionMatrixInputs(p) == PTable[Len(p)][p]

\* of these the chain that never leaves its state, for the operations
\* that do not read the transition matrix
StayingChain(p) ==
    {[i \in 1..Len(p) |-> [j \in 1..Len(p) |-> IF i = j THEN PUnit ELSE 0]]}

\* the count matrix of dtrajs at lag 1 over n labels
CountMatrix(dtrajs, n) ==
    [i \in 1..n |-> [j \in 1..n |->
        Cardinality({f \in UNION {{<<k, t>> : t \in 1..(Len(dtrajs[k]) - 1)} :
                                  k \in 1..Len(dtrajs)} :
                        /\ dtrajs[f[1]][f[2]] = i - 1
                        /\ dtrajs[f[1]][f[2] + 1] = j - 1})]]

\* pyemma.util.linalg.submatrix as the estimator applies it: C[A][:, A]
Submatrix(C, A) ==
    [i \in 1..Len(A) |-> [j \in 1..Len(A) |->
        C[NpIndex(A[i], Len(C)) + 1][NpIndex(A[j], Len(C)) + 1]]]

\* the connected sets: the active set first, every other label on its own
ConnectedSets(n, A) ==
    <<A>> \o [k \in 1..Len(SortedSeq((0..(n - 1)) \ Range(A))) |->
                <<SortedSeq((0..(n - 1)) \ Range(A))[k]>>]

IsActiveSet(A, n) ==
    /\ Len(A) >= 1
    /\ \A k \in 1..Len(A) : A[k] \in 0..(n - 1)
    /\ \A k \in 1..(Len(A) - 1) : A[k] < A[k + 1]

\* ------------------------------------------------------------------- state
VARIABLES
    pc,                     \* "new", "ok" (constructed), "failed" (__init__ raised)
    nstates_full,           \* self._nstates_full
    active_set,             \* self._active_set
    dtrajs_full,            \* self._dtrajs_full
    full2active,            \* self._full2active
    stationary_distribution,\* self.stationary_distribution, units of 1/PiUnit
    transition_matrix,      \* self.transition_matrix, units of 1/PUnit
    connectivity,           \* self._connectivity
    connected_sets,         \* self._connected_sets
    C_full,                 \* self._C_full
    C_active,               \* self._C_active
    dtrajs_active,          \* <<>> while self._dtrajs_active is missing,
                            \* else <<list>>
    gen,                    \* the generate_traj call in progress
    samples,                \* the ensemble of a sampled model: per member
                            \* the value of a functional, as a vector
    active_state_indexes,   \* <<>> while the attribute is missing, else <<table>>
    nbuilds,                \* how often the index table was built
    lookup,                 \* how the last call got the table: "none",
                            \* "cached", "built" or "failed"; for the active
                            \* trajectories "built" or "rebuilt"
    ret,                    \* outcome of the last call
    callers,                \* per concurrent caller of active_state_indexes:
                            \* its position in lines 351-358, the table it
                            \* is building and the table it got
    arguments,              \* the objects the caller passed to __init__ and
                            \* still holds, <<>> before the call
    references              \* the arguments the model holds by reference

vars == <<pc, nstates_full, active_set, dtrajs_full, full2active,
          stationary_distribution, transition_matrix, connectivity,
          connected_sets, C_full, C_active, dtrajs_active, gen, samples,
          active_state_indexes, nbuilds, lookup, ret, callers, arguments,
          references>>

\* what the constructor stores
model == <<pc, nstates_full, active_set, dtrajs_full, full2active,
           stationary_distribution, transition_matrix, connectivity,
           connected_sets, C_full, C_active>>

\* what lives outside the model object
outside == <<callers, arguments, references>>

Result(op, args, err, val) == [op |-> op, args |-> args, err |-> err, val |-> val]

NoResult == Result("none", <<>>, "none", <<>>)

\* no generate_traj call: state is "none"; else the state of the simulation,
\* the caller's arguments <<N, start, stop, stride>>, the arguments forwarded
\* to the generator and the states simulated so far
NoGen == [state |-> "none", args |-> <<>>, sim |-> <<>>, traj |-> <<>>]

\* the caller is between two calls: the last result has been taken
Idle == ret = NoResult /\ gen = NoGen

\* the callers of the race on the index table
Callers == 1..NCallers

\* a caller outside active_state_indexes
NoCall == [at |-> "out", table |-> <<>>, got |-> <<>>]

Init ==
    /\ pc = "new"
    /\ nstates_full = 0
    /\ active_set = <<>>
    /\ dtrajs_full = <<>>
    /\ full2active = <<>>
    /\ stationary_distribution = <<>>
    /\ transition_matrix = <<>>
    /\ connectivity = "unset"
    /\ connected_sets = <<>>
    /\ C_full = <<>>
    /\ C_active = <<>>
    /\ dtrajs_active = <<>>
    /\ gen = NoGen
    /\ samples = <<>>
    /\ active_state_indexes = <<>>
    /\ nbuilds = 0
    /\ lookup = "none"
    /\ ret = NoResult
    /\ callers = [t \in Callers |-> NoCall]
    /\ arguments = <<>>
    /\ references = {}

\* -------------------------------------------------------------- __init__
Full2ActiveZeros(n, A) == NpSetItems(Filled(n, 0), A, ARange(Len(A)))

\* lines 101-102: -1 everywhere, then position active_set[i] gets i
Full2Active(n, A) == NpSetItems(Filled(n, 0 - 1), A, ARange(Len(A)))

\* the arguments of __init__ that are mutable objects
ArgumentNames ==
    {"dtrajs", "active_set", "connected_sets", "C_full", "C_active"}

DeepCopiedButDtrajs(name) ==
    name \in {"connectivity", "active_set", "C_full", "C_active",
              "connected_sets"}

\* lines 90-96: the arguments stored as copy.deepcopy(argument)
DeepCopied(name) ==
    name \in {"connectivity", "active_set", "dtrajs", "C_full", "C_active",
              "connected_sets"}

\* lines 86-105; p is the stationary distribution that MSM.__init__ derives
\* from the transition matrix P; the caller keeps the objects it passed
Construct(dtrajs, conn, A, csets, Cf, Ca, P, p) ==
    /\ pc = "new"
    /\ Idle
    /\ LET n == Len(Cf)
       IN  IF NpIndexError(A, n)
           THEN /\ pc' = "failed"
                /\ ret' = Result("__init__", <<dtrajs, A>>, "IndexError", <<>>)
                /\ UNCHANGED <<nstates_full, active_set, dtrajs_full,
                               full2active, stationary_distribution,
                               transition_matrix, connectivity,
                               connected_sets, C_full, C_active>>
           ELSE /\ pc' = "ok"
                /\ transition_matrix' = P
                /\ stationary_distribution' = p
                /\ connectivity' = conn
                /\ active_set' = A
                /\ dtrajs_full' = dtrajs
                /\ C_full' = Cf
                /\ C_active' = Ca
                /\ connected_sets' = csets
                /\ nstates_full' = n
                /\ full2active' = Full2Active(n, A)
                /\ ret' = Result("__init__", <<dtrajs, A>>, "none", <<>>)
    /\ arguments' = [dtrajs |-> dtrajs, active_set |-> A,
                     connected_sets |-> csets, C_full |-> Cf, C_active |-> Ca,
                     nmutations |-> 0]
    /\ references' = {name \in ArgumentNames : ~DeepCopied(name)}
    /\ UNCHANGED <<samples, dtrajs_active, gen, active_state_indexes,
                   nbuilds, lookup, callers>>

\* the estimator's call: the count matrices are counted from dtrajs, the
\* active one is the full one restricted to the active set; anyMatrix is
\* set where the operations at hand read the transition matrix
ConstructFrom(inputs, anyMatrix) ==
    /\ pc = "new"
    /\ \E dtrajs \in inputs :
           LET n == ShapeCFull(dtrajs)
               Cf == CountMatrix(dtrajs, n)
           IN  \E A \in ActiveSetInputs(n) :
               \E p \in PiInputs(Len(A)) :
               \E P \in IF anyMatrix THEN TransitionMatrixInputs(p)
                         ELSE StayingChain(p) :
                   Construct(dtrajs, "largest", A, ConnectedSets(n, A), Cf,
                             IF NpIndexError(A, n) THEN <<>>
                             ELSE Submatrix(Cf, A),
                             P, p)

\* ------------------------------------ the caller's objects after __init__
\* one entry of a list or 1-d array set to another value
ChangedRow(row) ==
    {[row EXCEPT ![k] = (@ + 1) % NStatesFull] : k \in 1..Len(row)} \ {row}

\* an in-place change of an argument: one entry of the active set, one
\* frame of one trajectory, one cell of a matrix, one label of one set
InPlaceChanges(name, x) ==
    IF name = "active_set" THEN ChangedRow(x)
    ELSE UNION {{[x EXCEPT ![k] = row] : row \in ChangedRow(x[k])} :
                   k \in 1..Len(x)}

\* the attribute after the caller changed the argument called changed into
\* x: an attribute that is the argument itself shows the change, a copy
\* (lines 90-96) does not
Held(name, attribute, changed, x) ==
    IF name = changed /\ name \in references THEN x ELSE attribute

\* the caller changes one of the objects it passed to __init__; the map and
\* the number of states were computed during __init__ (lines 99-102)
MutateArgument ==
    /\ pc = "ok"
    /\ Idle
    /\ arguments.nmutations < MaxMutations
    /\ \E name \in ArgumentNames :
       \E x \in InPlaceChanges(name, arguments[name]) :
           /\ arguments' = [arguments EXCEPT ![name] = x,
                                             !.nmutations = @ + 1]
           /\ dtrajs_full' = Held("dtrajs", dtrajs_full, name, x)
           /\ active_set' = Held("active_set", active_set, name, x)
           /\ connected_sets' = Held("connected_sets", connected_sets, name, x)
           /\ C_full' = Held("C_full", C_full, name, x)
           /\ C_active' = Held("C_active", C_active, name, x)
    /\ UNCHANGED <<pc, nstates_full, full2active, stationary_distribution,
                   transition_matrix, connectivity, references, callers,
                   samples, dtrajs_active, gen, active_state_indexes,
                   nbuilds, lookup, ret>>

\* ----------------------------------------------------- trajectory_weights
\* np.sum over the list W of weight arrays: arrays of one length stack to a
\* 2-d array whose entries are all added up; arrays of different lengths do
\* not, and no build gets a result out of the call: numpy either refuses the
\* ragged list or adds the arrays to an array-valued wtot that the in-place
\* division of the shorter arrays rejects (ValueError in both cases)
NpSumList(W) ==
    IF \A k \in 1..Len(W) : Len(W[k]) = Len(W[1])
    THEN [err |-> "none", val |-> SumSeqSeq(W)]
    ELSE [err |-> "ValueError", val |-> 0]

\* lines 331-335: wtot += np.sum(W) once per trajectory, W the list so far
RECURSIVE Wtot(_, _)
Wtot(W, k) ==
    IF k = 0 THEN [err |-> "none", val |-> 0]
    ELSE LET before == Wtot(W, k - 1)
             s == NpSumList(SubSeq(W, 1, k))
         IN  IF before.err # "none" THEN before
             ELSE IF s.err # "none" THEN s
             ELSE [err |-> "none", val |-> before.val + s.val]

\* lines 327-328: the stationary distribution expanded to the full set
StatdistFull(n, A, p) ==
    NpSetItems(Filled(n, 0), A,
               IF Len(p) = Len(A) THEN p ELSE Filled(Len(A), p[1]))

\* lines 325-340; a weight is <<numerator, wtot>>, wtot = 0 gives nan
TrajectoryWeightsResult(n, A, p, dtrajs) ==
    IF NpIndexError(A, n)
    THEN Result("trajectory_weights", <<>>, "IndexError", <<>>)
    ELSE IF Len(p) # Len(A) /\ Len(p) # 1
    THEN Result("trajectory_weights", <<>>, "ValueError", <<>>)
    ELSE LET statdist_full == StatdistFull(n, A, p)
             W == [k \in 1..Len(dtrajs) |->
                     [t \in 1..Len(dtrajs[k]) |-> At(statdist_full, dtrajs[k][t])]]
             wtot == Wtot(W, Len(W))
         IN  IF wtot.err # "none"
             THEN Result("trajectory_weights", <<>>, wtot.err, <<>>)
             ELSE Result("trajectory_weights", <<>>, "none",
                         [k \in 1..Len(W) |->
                             [t \in 1..Len(W[k]) |-> <<W[k][t], wtot.val>>]])

TrajectoryWeightsStoringExpanded ==
    /\ pc = "ok"
    /\ Idle
    /\ ret' = TrajectoryWeightsResult(nstates_full, active_set,
                                      stationary_distribution, dtrajs_full)
    /\ stationary_distribution' =
           IF ret'.err = "none"
           THEN StatdistFull(nstates_full, active_set, stationary_distribution)
           ELSE stationary_distribution
    /\ lookup' = "none"
    /\ UNCHANGED <<pc, nstates_full, active_set, dtrajs_full, full2active,
                   transition_matrix, connectivity, connected_sets, C_full,
                   C_active, outside, samples, dtrajs_active, gen,
                   active_state_indexes, nbuilds>>

\* lines 325-340: statdist_full (line 327), W and its arrays (lines 330,
\* 333) are objects of the call, the division of line 338 writes to the
\* arrays of W, and no attribute of the model is assigned
TrajectoryWeights ==
    /\ pc = "ok"
    /\ Idle
    /\ ret' = TrajectoryWeightsResult(nstates_full, active_set,
                                      stationary_distribution, dtrajs_full)
    /\ lookup' = "none"
    /\ UNCHANGED <<model, outside, samples, dtrajs_active, gen,
                   active_state_indexes, nbuilds>>

\* ------------------------------------------------- properties of the class
\* lines 137-139: assignment to the property active_set
SetActiveSet(value) ==
    /\ pc = "ok"
    /\ Idle
    /\ active_set' = value
    /\ ret' = Result("active_set.setter", <<value>>, "none", <<>>)
    /\ lookup' = "none"
    /\ UNCHANGED <<outside, pc, nstates_full, dtrajs_full, full2active,
                   stationary_distribution, transition_matrix, connectivity,
                   connected_sets, C_full, C_active, samples, dtrajs_active,
                   gen, active_state_indexes, nbuilds>>

\* a caller assigns an active set of the model's full state space
AssignActiveSet ==
    /\ pc = "ok"
    /\ \E value \in {A \in ActiveSetInputs(nstates_full) :
                         IsActiveSet(A, nstates_full)} : SetActiveSet(value)

\* lines 146-148: assignment to the property connectivity
SetConnectivity(value) ==
    /\ pc = "ok"
    /\ Idle
    /\ connectivity' = value
    /\ ret' = Result("connectivity.setter", <<value>>, "none", <<>>)
    /\ lookup' = "none"
    /\ UNCHANGED <<outside, pc, nstates_full, active_set, dtrajs_full,
                   full2active, stationary_distribution, transition_matrix,
                   connected_sets, C_full, C_active, samples, dtrajs_active,
                   gen, active_state_indexes, nbuilds>>

\* lines 62-72: the connectivity modes
AssignConnectivity ==
    \E value \in {"largest", "all", "none"} : SetConnectivity(value)

DtrajsActiveUnmapped(map, dtrajs) == dtrajs

\* lines 188-191: every trajectory indexed into the map, in order
DtrajsActive(map, dtrajs) ==
    [k \in 1..Len(dtrajs) |->
        [t \in 1..Len(dtrajs[k]) |-> At(map, NpIndex(dtrajs[k][t], Len(map)))]]

\* lines 178-193: the list is built anew on every access and kept in
\* self._dtrajs_active
DiscreteTrajectoriesActive ==
    /\ pc = "ok"
    /\ Idle
    /\ dtrajs_active' = <<DtrajsActive(full2active, dtrajs_full)>>
    /\ ret' = Result("discrete_trajectories_active", <<>>, "none",
                     DtrajsActive(full2active, dtrajs_full))
    /\ lookup' = IF dtrajs_active = <<>> THEN "built" ELSE "rebuilt"
    /\ UNCHANGED <<model, outside, samples, gen, active_state_indexes,
                   nbuilds>>

count_matrix_active_is_full == C_full

\* line 213
count_matrix_active == C_active

\* line 253
count_matrix_full == C_full

CountMatrixActive ==
    /\ pc = "ok"
    /\ Idle
    /\ ret' = Result("count_matrix_active", <<>>, "none", count_matrix_active)
    /\ lookup' = "none"
    /\ UNCHANGED <<model, outside, samples, dtrajs_active, gen,
                   active_state_indexes, nbuilds>>

CountMatrixFull ==
    /\ pc = "ok"
    /\ Idle
    /\ ret' = Result("count_matrix_full", <<>>, "none", count_matrix_full)
    /\ lookup' = "none"
    /\ UNCHANGED <<model, outside, samples, dtrajs_active, gen,
                   active_state_indexes, nbuilds>>

\* --------------------------------------------------- active_state_indexes
\* every frame as (trajectory index, time index), trajectory by trajectory
RECURSIVE Frames(_, _)
Frames(dtrajs, k) ==
    IF k > Len(dtrajs) THEN <<>>
    ELSE [t \in 1..Len(dtrajs[k]) |-> <<k - 1, t - 1>>] \o Frames(dtrajs, k + 1)

LabelOf(dtrajs, f) == dtrajs[f[1] + 1][f[2] + 1]

\* pyemma.util.discrete_trajectories.index_states: for each position of
\* subset the frames of that label, in input iteration order
IndexStates(dtrajs, subset) ==
    IF \E k \in 1..Len(subset) : subset[k] \notin 0..MaxLabel(dtrajs)
    THEN [err |-> "InvalidStateError", val |-> <<>>]
    ELSE [err |-> "none",
          val |-> [i \in 1..Len(subset) |->
                     SelectSeq(Frames(dtrajs, 1),
                               LAMBDA f : LabelOf(dtrajs, f) = subset[i])]]

AsiLookupAllStates ==
    IF active_state_indexes # <<>>
    THEN [err |-> "none", val |-> active_state_indexes[1], built |-> FALSE]
    ELSE LET r == IndexStates(dtrajs_full, ARange(nstates_full))
         IN  [err |-> r.err, val |-> r.val, built |-> r.err = "none"]

AsiLookupNoCache ==
    LET r == IndexStates(dtrajs_full, active_set)
    IN  [err |-> r.err, val |-> r.val, built |-> r.err = "none"]

\* lines 351-358: return the attribute if it exists, else build and keep it
AsiLookup ==
    IF active_state_indexes # <<>>
    THEN [err |-> "none", val |-> active_state_indexes[1], built |-> FALSE]
    ELSE LET r == IndexStates(dtrajs_full, active_set)
         IN  [err |-> r.err, val |-> r.val, built |-> r.err = "none"]

AsiEffect(a) ==
    /\ active_state_indexes' = IF a.built THEN <<a.val>> ELSE active_state_indexes
    /\ nbuilds' = IF a.built THEN nbuilds + 1 ELSE nbuilds
    /\ lookup' = IF a.built THEN "built"
                 ELSE IF a.err = "none" THEN "cached" ELSE "failed"

ActiveStateIndexes ==
    /\ pc = "ok"
    /\ Idle
    /\ LET a == AsiLookup
       IN  /\ AsiEffect(a)
           /\ ret' = Result("active_state_indexes", <<>>, a.err, a.val)
    /\ UNCHANGED <<model, outside, samples, dtrajs_active, gen>>

\* ---------------------------------- active_state_indexes, concurrent calls
\* Lines 351-358 as the steps of one caller among several: the try reads
\* the attribute, the except branch has index_states build a table of its
\* own row by row, the assignment of line 357 publishes it, and line 358
\* reads the attribute again for the return value.
AtCaller(t, at, table, got) ==
    callers' = [callers EXCEPT ![t] = [at |-> at, table |-> table, got |-> got]]

\* line 350: a caller enters the property
AsiCall(t) ==
    /\ pc = "ok"
    /\ Idle
    /\ callers[t].at = "out"
    /\ AtCaller(t, "try", <<>>, <<>>)
    /\ UNCHANGED <<model, arguments, references, samples, dtrajs_active, gen,
                   active_state_indexes, nbuilds, lookup, ret>>

\* lines 352-354: the attribute exists and is returned, or the read raises
AsiTry(t) ==
    /\ callers[t].at = "try"
    /\ IF active_state_indexes # <<>>
       THEN AtCaller(t, "returned", <<>>, active_state_indexes)
       ELSE AtCaller(t, "except", <<>>, <<>>)
    /\ UNCHANGED <<model, arguments, references, samples, dtrajs_active, gen,
                   active_state_indexes, nbuilds, lookup, ret>>

\* line 357, right-hand side: index_states raises, or adds the next row to
\* the table it is building
AsiIndexStep(t) ==
    /\ callers[t].at = "except"
    /\ LET r == IndexStates(dtrajs_full, active_set)
           k == Len(callers[t].table) + 1
       IN  IF r.err # "none"
           THEN AtCaller(t, "raised", <<>>, <<>>)
           ELSE /\ k <= Len(r.val)
                /\ AtCaller(t, "except", Append(callers[t].table, r.val[k]),
                            <<>>)
    /\ UNCHANGED <<model, arguments, references, samples, dtrajs_active, gen,
                   active_state_indexes, nbuilds, lookup, ret>>

IndexStatesReturnedEarly(table, subset) == TRUE

\* line 357: the attribute is set once index_states has returned, that is
\* with a row for every label of the subset
IndexStatesReturned(table, subset) == Len(table) = Len(subset)

\* line 357, the assignment
AsiStore(t) ==
    /\ callers[t].at = "except"
    /\ IndexStates(dtrajs_full, active_set).err = "none"
    /\ IndexStatesReturned(callers[t].table, active_set)
    /\ active_state_indexes' = <<callers[t].table>>
    /\ nbuilds' = nbuilds + 1
    /\ AtCaller(t, "stored", <<>>, <<>>)
    /\ UNCHANGED <<model, arguments, references, samples, dtrajs_active, gen,
                   lookup, ret>>

\* line 358: the attribute is read for the return value
AsiReturn(t) ==
    /\ callers[t].at = "stored"
    /\ AtCaller(t, "returned", <<>>, active_state_indexes)
    /\ UNCHANGED <<model, arguments, references, samples, dtrajs_active, gen,
                   active_state_indexes, nbuilds, lookup, ret>>

\* the caller has its table or its exception and is free to call again
AsiLeave(t) ==
    /\ callers[t].at \in {"returned", "raised"}
    /\ AtCaller(t, "out", <<>>, <<>>)
    /\ UNCHANGED <<model, arguments, references, samples, dtrajs_active, gen,
                   active_state_indexes, nbuilds, lookup, ret>>

\* ----------------------------------------------------------- the samplers
\* all ways to pick one element from each set of a sequence of sets
RECURSIVE Product(_)
Product(sets) ==
    IF sets = <<>> THEN {<<>>}
    ELSE {<<x>> \o rest : x \in sets[1], rest \in Product(Tail(sets))}

\* m draws from pool with replacement, and without (then all draws differ)
DrawsReplace(pool, m) == [1..m -> Range(pool)]

DrawsNoReplace(pool, m) ==
    {d \in [1..m -> Range(pool)] : \A a, b \in 1..m : a # b => d[a] # d[b]}

Min(a, b) == IF a <= b THEN a ELSE b

\* pyemma.util.discrete_trajectories.sample_indexes_by_state: the set of
\* results the random draws can produce, one entry per requested state;
\* subset is <<>> for None and <<list>> for a given list
SampleIndexesByState(indexes, nsample, subset, replace) ==
    LET states == IF subset = <<>> THEN ARange(Len(indexes)) ELSE subset[1]
    IN  IF replace /\ \E j \in 1..Len(states) : At(indexes, states[j]) = <<>>
        THEN [err |-> "EmptyPoolError", vals |-> {<<>>}]
        ELSE [err |-> "none",
              vals |-> Product([j \in 1..Len(states) |->
                  IF replace
                  THEN DrawsReplace(At(indexes, states[j]), nsample)
                  ELSE DrawsNoReplace(At(indexes, states[j]),
                           Min(nsample, Len(At(indexes, states[j]))))])]

\* the frames a distribution can draw: the pools of its positive states
Support(indexes, dist) ==
    UNION {Range(indexes[i]) : i \in {j \in 1..Len(dist) : dist[j] > 0}}

InvalidDistribution(indexes, dist) ==
    \/ Len(dist) # Len(indexes)
    \/ SumSeq(dist) # PiUnit
    \/ \E i \in 1..Len(dist) : dist[i] > 0 /\ indexes[i] = <<>>

\* pyemma.util.discrete_trajectories.sample_indexes_by_distribution: the
\* set of results the random draws can produce, one per distribution
SampleIndexesByDistribution(indexes, distributions, nsample) ==
    IF \E k \in 1..Len(distributions) :
           InvalidDistribution(indexes, distributions[k])
    THEN [err |-> "InvalidDistributionError", vals |-> {<<>>}]
    ELSE [err |-> "none",
          vals |-> Product([k \in 1..Len(distributions) |->
                      [1..nsample -> Support(indexes, distributions[k])]])]

\* the subsets a caller passes: None, or distinct active-space indexes
InjectiveSeqs(S) ==
    UNION {{q \in [1..l -> S] : \A a, b \in 1..l : a # b => q[a] # q[b]} :
           l \in 1..Cardinality(S)}

SubsetInputs(nactive) ==
    {<<>>} \cup {<<q>> : q \in InjectiveSeqs(0..(nactive - 1))}

DistributionInputs(nactive) ==
    UNION {[1..k -> [1..nactive -> 0..PiUnit]] : k \in 1..MaxDist}

SampleByStateCallNoSubset(indexes, nsample, subset, replace) ==
    SampleIndexesByState(indexes, nsample, <<>>, replace)

SampleByStateCallNoReplace(indexes, nsample, subset, replace) ==
    SampleIndexesByState(indexes, nsample, subset, TRUE)

\* line 451: the helper gets the table and the caller's arguments
SampleByStateCall(indexes, nsample, subset, replace) ==
    SampleIndexesByState(indexes, nsample, subset, replace)

\* lines 447-451; the index table is looked up before the helper is called
SampleByState ==
    /\ pc = "ok"
    /\ Idle
    /\ LET a == AsiLookup
       IN  /\ AsiEffect(a)
           /\ IF a.err # "none"
              THEN ret' = Result("sample_by_state", <<>>, a.err, <<>>)
              ELSE \E nsample \in 1..MaxSample, replace \in BOOLEAN :
                   \E subset \in SubsetInputs(Len(a.val)) :
                       LET r == SampleByStateCall(a.val, nsample, subset,
                                                  replace)
                       IN  \E v \in r.vals :
                               ret' = Result("sample_by_state",
                                             <<nsample, subset, replace>>, r.err, v)
    /\ UNCHANGED <<model, outside, samples, dtrajs_active, gen>>

SampleByDistributionsCallFirstOnly(indexes, distributions, nsample) ==
    SampleIndexesByDistribution(indexes, <<distributions[1]>>, nsample)

SampleByDistributionsCallLastOnly(indexes, distributions, nsample) ==
    SampleIndexesByDistribution(indexes,
        <<distributions[Len(distributions)]>>, nsample)

\* line 477: the helper gets the table and the caller's arguments
SampleByDistributionsCall(indexes, distributions, nsample) ==
    SampleIndexesByDistribution(indexes, distributions, nsample)

\* lines 473-477; the index table is looked up before the helper is called
SampleByDistributions ==
    /\ pc = "ok"
    /\ Idle
    /\ LET a == AsiLookup
       IN  /\ AsiEffect(a)
           /\ IF a.err # "none"
              THEN ret' = Result("sample_by_distributions", <<>>, a.err, <<>>)
              ELSE \E nsample \in 1..MaxSample :
                   \E distributions \in DistributionInputs(Len(a.val)) :
                       LET r == SampleByDistributionsCall(a.val, distributions,
                                                          nsample)
                       IN  \E v \in r.vals :
                               ret' = Result("sample_by_distributions",
                                             <<distributions, nsample>>, r.err, v)
    /\ UNCHANGED <<model, outside, samples, dtrajs_active, gen>>

\* ----------------------------------------------------------- generate_traj
MatMul(X, Y) ==
    [i \in 1..Len(X) |-> [j \in 1..Len(X) |->
        SumSeq([k \in 1..Len(X) |-> X[i][k] * Y[k][j]])]]

RECURSIVE MatPow(_, _)
MatPow(P, k) == IF k = 1 THEN P ELSE MatMul(MatPow(P, k - 1), P)

SimArgsNoStop(P, N, start, stop, stride) ==
    [P |-> P, N |-> N, start |-> start, stop |-> {}, dt |-> stride]

SimArgsLonger(P, N, start, stop, stride) ==
    [P |-> P, N |-> N + 1, start |-> start, stop |-> stop, dt |-> stride]

SimArgsNoStart(P, N, start, stop, stride) ==
    [P |-> P, N |-> N, start |-> <<>>, stop |-> stop, dt |-> stride]

\* line 404: what the generator is called with; start is <<>> for None and
\* <<state>> for a given state, stop is the set of stop states, {} for None
SimArgs(P, N, start, stop, stride) ==
    [P |-> P, N |-> N, start |-> start, stop |-> stop, dt |-> stride]

\* msmtools.generation.generate_traj, lines 375-381 and 404.  The first
\* state is start, or a draw from the stationary distribution of the chain,
\* under which every state has positive probability
StartStates(sim) ==
    IF sim.start = <<>> THEN 0..(Len(sim.P) - 1) ELSE {sim.start[1]}

\* the time step between two states is dt lag times: the next state is a
\* draw from the current row of the dt-th power of P
NextStates(sim, s) ==
    {j \in 0..(Len(sim.P) - 1) : At(At(MatPow(sim.P, sim.dt), s), j) > 0}

\* where the generator stands once traj is simulated: it stops on a stop
\* state, else after N states
SimState(sim, traj) ==
    IF traj[Len(traj)] \in sim.stop THEN "StoppedByStopSet"
    ELSE IF Len(traj) >= sim.N THEN "StoppedByLength"
    ELSE "Running"

\* pyemma.util.discrete_trajectories.sample_indexes_by_sequence: the set of
\* arrays the random draws can produce, one frame of its pool per state
SampleIndexesBySequence(indexes, sequence) ==
    IF \E k \in 1..Len(sequence) : At(indexes, sequence[k]) = <<>>
    THEN [err |-> "EmptyPoolError", vals |-> {<<>>}]
    ELSE [err |-> "none",
          vals |-> Product([k \in 1..Len(sequence) |->
                      Range(At(indexes, sequence[k]))])]

SampleBySequenceCallReversed(indexes, syntraj) ==
    SampleIndexesBySequence(indexes,
        [k \in 1..Len(syntraj) |-> syntraj[Len(syntraj) + 1 - k]])

\* line 408: the helper gets the table and the simulated states
SampleBySequenceCall(indexes, syntraj) ==
    SampleIndexesBySequence(indexes, syntraj)

Stopped == {"StoppedByLength", "StoppedByStopSet"}

\* lines 400-404: the call enters the generator, which takes its first state
GenerateTrajStart ==
    /\ pc = "ok"
    /\ Idle
    /\ \E N \in 1..MaxN, stride \in 1..MaxStride :
       \E start \in {<<>>} \cup {<<i>> : i \in 0..(Len(transition_matrix) - 1)} :
       \E stop \in SUBSET (0..(Len(transition_matrix) - 1)) :
           LET sim == SimArgs(transition_matrix, N, start, stop, stride)
           IN  \E s0 \in StartStates(sim) :
                   gen' = [state |-> "Running",
                           args |-> <<N, start, stop, stride>>,
                           sim |-> sim, traj |-> <<s0>>]
    /\ UNCHANGED <<model, outside, samples, dtrajs_active,
                   active_state_indexes, nbuilds, lookup, ret>>

\* one turn of the generator: stop where SimState says so, else draw the
\* next state
GenerateTrajStep ==
    /\ gen.state = "Running"
    /\ IF SimState(gen.sim, gen.traj) # "Running"
       THEN gen' = [gen EXCEPT !.state = SimState(gen.sim, gen.traj)]
       ELSE \E j \in NextStates(gen.sim, gen.traj[Len(gen.traj)]) :
                gen' = [gen EXCEPT !.traj = Append(gen.traj, j)]
    /\ UNCHANGED <<model, outside, samples, dtrajs_active,
                   active_state_indexes, nbuilds, lookup, ret>>

\* lines 406-408: the index table is looked up and every simulated state is
\* mapped to a frame
GenerateTrajReturn ==
    /\ gen.state \in Stopped
    /\ ret = NoResult
    /\ LET a == AsiLookup
       IN  /\ AsiEffect(a)
           /\ IF a.err # "none"
              THEN ret' = Result("generate_traj", <<>>, a.err, <<>>)
              ELSE LET r == SampleBySequenceCall(a.val, gen.traj)
                   IN  \E v \in r.vals :
                           ret' = Result("generate_traj", gen.args, r.err, v)
    /\ UNCHANGED <<model, outside, samples, dtrajs_active, gen>>

\* ------------------------------------------------ statistics of an ensemble
\* A sampled model holds K members; a functional gives a vector of numbers
\* per member (a matrix counts entry by entry).  Means are exact rationals
\* <<sum, K>>; a confidence level is the rational <<c, d>>.
Values == 0..MaxValue

\* every ensemble whose members hold at most cells numbers in all
RECURSIVE EnsemblesUpTo(_)
EnsemblesUpTo(cells) ==
    IF cells = 0 THEN {}
    ELSE UNION {{<<first>> \o rest :
                    first \in [1..len -> Values],
                    rest \in {<<>>} \cup EnsemblesUpTo(cells - len)} :
                len \in 1..cells}

ConfLevels == {<<0, 1>>, <<1, 2>>, <<19, 20>>}

RECURSIVE SortAsc(_)
SortAsc(x) ==
    IF x = <<>> THEN <<>>
    ELSE LET i == CHOOSE i \in 1..Len(x) : \A k \in 1..Len(x) : x[i] <= x[k]
         IN  <<x[i]>> \o SortAsc(SubSeq(x, 1, i - 1) \o SubSeq(x, i + 1, Len(x)))

CeilDiv(a, b) == (a + b - 1) \div b

SampleValuesReversed(ensemble) ==
    IF \E k \in 1..Len(ensemble) : Len(ensemble[k]) # Len(ensemble[1])
    THEN [err |-> "ShapeMismatchError", val |-> <<>>]
    ELSE [err |-> "none",
          val |-> [k \in 1..Len(ensemble) |-> ensemble[Len(ensemble) + 1 - k]]]

\* sample_f: the members' values in ensemble order, all of one shape
SampleValues(ensemble) ==
    IF \E k \in 1..Len(ensemble) : Len(ensemble[k]) # Len(ensemble[1])
    THEN [err |-> "ShapeMismatchError", val |-> <<>>]
    ELSE [err |-> "none", val |-> ensemble]

\* entry j of every member's value
Column(vals, j) == [k \in 1..Len(vals) |-> vals[k][j]]

\* sample_mean, entry by entry
Mean(vals) == [j \in 1..Len(vals[1]) |-> <<SumSeq(Column(vals, j)), Len(vals)>>]

\* sample_std squared, entry by entry: the unbiased sample variance
\* sum((K x - sum)^2) / (K^2 (K - 1)), 0/0 for a single member
Variance(vals) ==
    [j \in 1..Len(vals[1]) |->
        LET x == Column(vals, j)
            K == Len(x)
        IN  <<SumSeq([k \in 1..K |-> (K * x[k] - SumSeq(x)) * (K * x[k] - SumSeq(x))]),
              K * K * (K - 1)>>]

\* the naive symmetric cut: the same number of samples off either end
IntervalSymmetric(x, conf) ==
    LET sorted == SortAsc(x)
        cut == ((conf[2] - conf[1]) * Len(x)) \div (2 * conf[2])
    IN  <<sorted[1 + cut], sorted[Len(x) - cut]>>

\* the interval of one entry: the order statistics that bracket the mean,
\* moved outwards from it by the fraction conf of the samples on each side
Interval(x, conf) ==
    LET K == Len(x)
        below == SortAsc(SelectSeq(x, LAMBDA v : K * v <= SumSeq(x)))
        above == SortAsc(SelectSeq(x, LAMBDA v : K * v >= SumSeq(x)))
    IN  <<below[Len(below) - CeilDiv(conf[1] * (Len(below) - 1), conf[2])],
          above[1 + CeilDiv(conf[1] * (Len(above) - 1), conf[2])]>>

ConfidenceIntervalSymmetric(vals, conf) ==
    <<[j \in 1..Len(vals[1]) |-> IntervalSymmetric(Column(vals, j), conf)[1]],
      [j \in 1..Len(vals[1]) |-> IntervalSymmetric(Column(vals, j), conf)[2]]>>

\* sample_conf: the pair (L, R) of lower and upper bounds, entry by entry
ConfidenceInterval(vals, conf) ==
    <<[j \in 1..Len(vals[1]) |-> Interval(Column(vals, j), conf)[1]],
      [j \in 1..Len(vals[1]) |-> Interval(Column(vals, j), conf)[2]]>>

\* the ensemble is sampled once, before any statistics are asked for
SampleEnsemble ==
    /\ pc = "new"
    /\ samples = <<>>
    /\ Idle
    /\ \E ensemble \in EnsemblesUpTo(MaxCells) : samples' = ensemble
    /\ UNCHANGED <<model, outside, dtrajs_active, gen, active_state_indexes,
                   nbuilds, lookup, ret>>

Statistic(op, args, r, val) ==
    /\ ret' = IF r.err # "none" THEN Result(op, args, r.err, <<>>)
              ELSE Result(op, args, "none", val)
    /\ UNCHANGED <<model, outside, samples, dtrajs_active, gen,
                   active_state_indexes, nbuilds, lookup>>

SampleF ==
    /\ samples # <<>>
    /\ Idle
    /\ LET r == SampleValues(samples)
       IN  Statistic("sample_f", <<>>, r, r.val)

SampleMean ==
    /\ samples # <<>>
    /\ Idle
    /\ LET r == SampleValues(samples)
       IN  Statistic("sample_mean", <<>>, r, Mean(r.val))

SampleStd ==
    /\ samples # <<>>
    /\ Idle
    /\ LET r == SampleValues(samples)
       IN  Statistic("sample_std", <<>>, r, Variance(r.val))

SampleConf ==
    /\ samples # <<>>
    /\ Idle
    /\ \E conf \in ConfLevels :
           LET r == SampleValues(samples)
           IN  Statistic("sample_conf", <<conf>>, r,
                         ConfidenceInterval(r.val, conf))

\* the caller takes the result; the object is untouched
Discard ==
    /\ ret # NoResult
    /\ ret' = NoResult
    /\ gen' = NoGen
    /\ lookup' = "none"
    /\ UNCHANGED <<model, outside, samples, dtrajs_active,
                   active_state_indexes, nbuilds>>

\* ---------------------------------------------------------- specifications
\* construction, weights, index table, both samplers and the generator
Next ==
    \/ ConstructFrom(DtrajsUpTo(MaxFramesS), TRUE)
    \/ TrajectoryWeights
    \/ ActiveStateIndexes
    \/ SampleByState
    \/ SampleByDistributions
    \/ GenerateTrajStart
    \/ GenerateTrajStep
    \/ GenerateTrajReturn
    \/ Discard

Spec == Init /\ [][Next]_vars

\* construction, index table and the trajectory generator
NextGen ==
    \/ ConstructFrom(DtrajsUpTo(MaxFramesS), TRUE)
    \/ ActiveStateIndexes
    \/ GenerateTrajStart
    \/ GenerateTrajStep
    \/ GenerateTrajReturn
    \/ Discard

SpecGen == Init /\ [][NextGen]_vars

\* the generator's loop runs on until it stops
SpecGenLive == SpecGen /\ WF_vars(GenerateTrajStep)

\* construction, weights, index table and sampling by state
NextByState ==
    \/ ConstructFrom(DtrajsUpTo(MaxFramesS), FALSE)
    \/ TrajectoryWeights
    \/ ActiveStateIndexes
    \/ SampleByState
    \/ Discard

SpecByState == Init /\ [][NextByState]_vars

\* construction, weights and index table on larger trajectory sets
NextData ==
    \/ ConstructFrom(DtrajsUpTo(MaxFrames), FALSE)
    \/ TrajectoryWeights
    \/ ActiveStateIndexes
    \/ DiscreteTrajectoriesActive
    \/ CountMatrixActive
    \/ CountMatrixFull
    \/ Discard

SpecData == Init /\ [][NextData]_vars

\* the data operations and sampling by state, with property assignment
NextAssign ==
    \/ ConstructFrom(DtrajsUpTo(MaxFramesS), FALSE)
    \/ AssignActiveSet
    \/ AssignConnectivity
    \/ TrajectoryWeights
    \/ ActiveStateIndexes
    \/ DiscreteTrajectoriesActive
    \/ CountMatrixActive
    \/ CountMatrixFull
    \/ SampleByState
    \/ Discard

SpecAssign == Init /\ [][NextAssign]_vars

\* construction and concurrent callers of the index table
NextRace ==
    \/ ConstructFrom(DtrajsUpTo(MaxFramesS), FALSE)
    \/ Discard
    \/ \E t \in Callers : AsiCall(t)
    \/ \E t \in Callers : AsiTry(t)
    \/ \E t \in Callers : AsiIndexStep(t)
    \/ \E t \in Callers : AsiStore(t)
    \/ \E t \in Callers : AsiReturn(t)
    \/ \E t \in Callers : AsiLeave(t)

SpecRace == Init /\ [][NextRace]_vars

\* construction, the caller's changes to its arguments, and the accessors
NextArgs ==
    \/ ConstructFrom(DtrajsUpTo(MaxFramesS), FALSE)
    \/ MutateArgument
    \/ DiscreteTrajectoriesActive
    \/ CountMatrixFull
    \/ Discard

SpecArgs == Init /\ [][NextArgs]_vars

\* a sampled model and the statistics over its ensemble
NextEnsemble ==
    \/ SampleEnsemble
    \/ SampleF
    \/ SampleMean
    \/ SampleStd
    \/ SampleConf
    \/ Discard

SpecEnsemble == Init /\ [][NextEnsemble]_vars

\* ------------------------------------------------------------ properties
\* the unnormalized weight of a frame, read off the model's own map: the
\* stationary probability of the frame's active state, 0 for an unmapped one
FrameProb(label) ==
    IF At(full2active, label) = 0 - 1 THEN 0
    ELSE At(stationary_distribution, At(full2active, label))

GrandTotal ==
    SumSeqSeq([k \in 1..Len(dtrajs_full) |->
                 [t \in 1..Len(dtrajs_full[k]) |-> FrameProb(dtrajs_full[k][t])]])

Numerators(W) == [k \in 1..Len(W) |-> [t \in 1..Len(W[k]) |-> W[k][t][1]]]

WeightsCalled ==
    /\ ret.op = "trajectory_weights"
    /\ IsActiveSet(active_set, nstates_full)

\* C1: when some frame lies in an active state (the grand total of the
\* frames' stationary probabilities is then positive), trajectory_weights()
\* returns weights whose sum over every frame of every trajectory is 1: all
\* numerators add up to the one denominator.
C1_WeightsSumToOne ==
    (WeightsCalled /\ GrandTotal > 0) =>
        /\ ret.err = "none"
        /\ \A k \in 1..Len(ret.val) : \A t \in 1..Len(ret.val[k]) :
               ret.val[k][t][2] = ret.val[1][1][2]
        /\ ret.val[1][1][2] # 0
        /\ SumSeqSeq(Numerators(ret.val)) = ret.val[1][1][2]

\* C2: trajectory_weights() returns one vector per trajectory, in order and
\* of the trajectory's length; a frame outside the active set has weight 0,
\* a frame inside it the stationary probability of its state divided by the
\* grand total of all frames' probabilities.
C2_WeightPerFrame ==
    (WeightsCalled /\ GrandTotal > 0) =>
        /\ ret.err = "none"
        /\ Len(ret.val) = Len(dtrajs_full)
        /\ \A k \in 1..Len(ret.val) :
               /\ Len(ret.val[k]) = Len(dtrajs_full[k])
               /\ \A t \in 1..Len(ret.val[k]) :
                      /\ ret.val[k][t][2] # 0
                      /\ ret.val[k][t][1] * GrandTotal
                             = FrameProb(dtrajs_full[k][t]) * ret.val[k][t][2]

\* C3: when the grand total of the unnormalized weights is 0,
\* trajectory_weights() raises DegenerateWeightsError and returns nothing.
C3_ZeroTotalRaises ==
    (WeightsCalled /\ GrandTotal = 0) =>
        /\ ret.err = "DegenerateWeightsError"
        /\ ret.val = <<>>

\* C4: after construction with an active set A over n full states the map
\* has length n, sends A[i] to i and every label outside A to -1.
C4_Full2ActiveMap ==
    (pc = "ok" /\ IsActiveSet(active_set, nstates_full)) =>
        /\ Len(full2active) = nstates_full
        /\ \A i \in 0..(Len(active_set) - 1) :
               At(full2active, At(active_set, i)) = i
        /\ \A s \in 0..(nstates_full - 1) :
               s \notin Range(active_set) => At(full2active, s) = 0 - 1

C4_Witness ==
    /\ pc = "ok"
    /\ active_set = <<1>>
    /\ nstates_full = 2
    /\ full2active = <<0 - 1, 0>>

\* C5: construction fails, and no map is built, whenever an active-set label
\* lies outside 0..nstates_full-1, negative labels included.
C5_OutOfRangeRejected ==
    (/\ ret.op = "__init__"
     /\ \E k \in 1..Len(ret.args[2]) :
            ret.args[2][k] \notin 0..(ShapeCFull(ret.args[1]) - 1)) =>
        /\ pc = "failed"
        /\ ret.err # "none"
        /\ full2active = <<>>

\* lexicographic order of (trajectory index, time index) pairs
PairLess(f, g) == f[1] < g[1] \/ (f[1] = g[1] /\ f[2] < g[2])

IsFrame(f) ==
    /\ f[1] \in 0..(Len(dtrajs_full) - 1)
    /\ f[2] \in 0..(Len(dtrajs_full[f[1] + 1]) - 1)

AllFrames ==
    UNION {{<<k - 1, t - 1>> : t \in 1..Len(dtrajs_full[k])} :
           k \in 1..Len(dtrajs_full)}

\* C6: entry i of the index table holds exactly the frames whose label is
\* active_set[i], each once, ordered by trajectory index and then time index.
C6_IndexTable ==
    active_state_indexes # <<>> =>
        LET table == active_state_indexes[1]
        IN  /\ Len(table) = Len(active_set)
            /\ \A i \in 1..Len(table) :
                   /\ \A j \in 1..Len(table[i]) :
                          /\ IsFrame(table[i][j])
                          /\ LabelOf(dtrajs_full, table[i][j]) = active_set[i]
                   /\ \A f \in AllFrames :
                          LabelOf(dtrajs_full, f) = active_set[i]
                              => f \in Range(table[i])
                   /\ \A j \in 1..(Len(table[i]) - 1) :
                          PairLess(table[i][j], table[i][j + 1])

C6_Witness ==
    /\ active_state_indexes # <<>>
    /\ \E i \in 1..Len(active_state_indexes[1]) :
           /\ Len(active_state_indexes[1][i]) >= 2
           /\ Cardinality(AllFrames) > Len(active_state_indexes[1][i])
           /\ active_state_indexes[1][i][1][2] > 0

\* C7: every access returns the table that was stored at the first access;
\* once stored the table never changes and it is built at most once.
C7_TableBuiltOnce ==
    [][/\ (ret'.op = "active_state_indexes" /\ ret'.err = "none")
           => (active_state_indexes' # <<>>
               /\ ret'.val = active_state_indexes'[1])
       /\ active_state_indexes # <<>>
           => (active_state_indexes' = active_state_indexes
               /\ nbuilds' = nbuilds)
       /\ nbuilds' <= 1]_vars

C7_Witness ==
    /\ ret.op = "active_state_indexes"
    /\ ret.err = "none"
    /\ lookup = "cached"
    /\ nbuilds = 1
    /\ \E i \in 1..Len(ret.val) : ret.val[i] # <<>>

\* the states a sample_by_state call asked for
Requested == IF ret.args[2] = <<>> THEN ARange(Len(active_set))
             ELSE ret.args[2][1]

SampledByState ==
    /\ ret.op = "sample_by_state"
    /\ ret.err = "none"

\* the frames of active state i, from the trajectories and the map
Pool(i) == {f \in AllFrames : At(full2active, LabelOf(dtrajs_full, f)) = i}

\* C8: sample_by_state returns one result per requested state (all active
\* states by default, else those of subset), and every pair returned for
\* state i is a frame that the map sends to i.
C8_SamplesBelongToState ==
    SampledByState =>
        /\ Len(ret.val) = Len(Requested)
        /\ \A j \in 1..Len(ret.val) : \A f \in Range(ret.val[j]) :
               /\ IsFrame(f)
               /\ At(full2active, LabelOf(dtrajs_full, f)) = Requested[j]

C8_Witness ==
    /\ SampledByState
    /\ Len(active_set) = 2
    /\ ret.args[2] = <<<<1>>>>
    /\ Len(ret.val[1]) >= 1

\* C9: without replacement each state gets min(nsample, pool size) distinct
\* pairs of its pool and the call does not raise; with replacement each
\* state with a non-empty pool gets exactly nsample pairs.
C9_SampleSizes ==
    /\ (ret.op = "sample_by_state" /\ ret.args # <<>> /\ ~ret.args[3])
           => ret.err = "none"
    /\ SampledByState =>
        \A j \in 1..Len(ret.val) :
            LET pool == Pool(Requested[j])
            IN  IF ret.args[3]
                THEN pool # {} => Len(ret.val[j]) = ret.args[1]
                ELSE /\ Len(ret.val[j]) = Min(ret.args[1], Cardinality(pool))
                     /\ Range(ret.val[j]) \subseteq pool
                     /\ Cardinality(Range(ret.val[j])) = Len(ret.val[j])

C9_Witness ==
    /\ SampledByState
    /\ ~ret.args[3]
    /\ ret.args[1] = 2
    /\ \E j \in 1..Len(ret.val) :
           Len(ret.val[j]) = 1 /\ Cardinality(Pool(Requested[j])) = 1

\* C10: sample_by_distributions returns one result per distribution, in
\* input order, each of nsample rows, and every row of the k-th result is a
\* frame whose active state has positive probability in the k-th distribution.
C10_DistributionSamples ==
    (ret.op = "sample_by_distributions" /\ ret.err = "none") =>
        /\ Len(ret.val) = Len(ret.args[1])
        /\ \A k \in 1..Len(ret.val) :
               /\ Len(ret.val[k]) = ret.args[2]
               /\ \A r \in 1..Len(ret.val[k]) :
                      /\ IsFrame(ret.val[k][r])
                      /\ At(full2active,
                            LabelOf(dtrajs_full, ret.val[k][r])) # 0 - 1
                      /\ At(ret.args[1][k],
                            At(full2active,
                               LabelOf(dtrajs_full, ret.val[k][r]))) > 0

C10_Witness ==
    /\ ret.op = "sample_by_distributions"
    /\ ret.err = "none"
    /\ ret.args[2] = 2
    /\ Len(ret.args[1]) = 2
    /\ ret.args[1][1] = <<PiUnit, 0>>
    /\ ret.args[1][2] = <<0, PiUnit>>

\* C11: a sample_by_distributions call in which some distribution does not
\* sum to 1, or gives positive probability to a state without frames, fails
\* with InvalidDistributionError and returns no result for any distribution.
C11_InvalidDistributionFails ==
    (/\ ret.op = "sample_by_distributions"
     /\ ret.args # <<>>
     /\ \E k \in 1..Len(ret.args[1]) :
            \/ SumSeq(ret.args[1][k]) # PiUnit
            \/ \E i \in 1..Len(ret.args[1][k]) :
                   ret.args[1][k][i] > 0 /\ Pool(i - 1) = {}) =>
        /\ ret.err = "InvalidDistributionError"
        /\ ret.val = <<>>

C11_Witness ==
    /\ ret.op = "sample_by_distributions"
    /\ ret.err = "InvalidDistributionError"
    /\ ret.val = <<>>
    /\ Len(ret.args[1]) = 2
    /\ ret.args[1][1] = <<0, PiUnit>>
    /\ Pool(1) # {}
    /\ ret.args[1][2] = <<PiUnit, 0>>
    /\ Pool(0) = {}

\* a generate_traj call that returned an index array
Generated ==
    /\ ret.op = "generate_traj"
    /\ ret.err = "none"

\* C12: with a stop set, the simulated sequence holds a stop state nowhere
\* but possibly at its end, the returned array has one row per simulated
\* state, at most N rows, and fewer than N only when the last state is a
\* stop state.
C12_StopsAtStopState ==
    (Generated /\ gen.args[3] # {}) =>
        /\ \A k \in 1..(Len(gen.traj) - 1) : gen.traj[k] \notin gen.args[3]
        /\ Len(ret.val) = Len(gen.traj)
        /\ Len(ret.val) <= gen.args[1]
        /\ Len(ret.val) < gen.args[1]
               => gen.traj[Len(gen.traj)] \in gen.args[3]

C12_Witness ==
    /\ Generated
    /\ gen.args[1] = 3
    /\ gen.args[2] = <<0>>
    /\ gen.args[3] = {1}
    /\ gen.traj = <<0, 1>>
    /\ Len(ret.val) = 2

\* C13: a generate_traj run starts in Running, a running one eventually
\* stops, by length or by stop set; a stopped run simulates no further
\* state, and a run without stop set stops by length with exactly N states.
C13_RunTerminates ==
    /\ [][(gen.state = "none" /\ gen'.state # "none")
              => gen'.state = "Running"]_vars
    /\ (gen.state = "Running") ~> (gen.state \in Stopped)
    /\ [][gen.state \in Stopped => (gen' = gen \/ gen' = NoGen)]_vars
    /\ []((gen.state \in Stopped /\ gen.args[3] = {})
              => (/\ gen.state = "StoppedByLength"
                  /\ Len(gen.traj) = gen.args[1]))

C13_Witness ==
    /\ gen.state = "StoppedByLength"
    /\ gen.args[3] = {}
    /\ gen.args[1] = 3
    /\ Len(gen.traj) = 3
    /\ gen.traj[1] # gen.traj[2]

\* the states reached from the states S in exactly k steps of P
RECURSIVE Reach(_, _, _)
Reach(P, S, k) ==
    IF k = 0 THEN S
    ELSE Reach(P, {j \in 0..(Len(P) - 1) :
                      \E i \in S : At(At(P, i), j) > 0}, k - 1)

C15_RowsFollowStates ==
    Generated =>
        /\ Len(ret.val) = Len(gen.traj)
        /\ \A k \in 1..Len(ret.val) :
               /\ IsFrame(ret.val[k])
               /\ At(full2active, LabelOf(dtrajs_full, ret.val[k]))
                      = gen.traj[k]

C15_Witness ==
    /\ Generated
    /\ Len(gen.traj) = 3
    /\ gen.traj[1] # gen.traj[2]
    /\ gen.traj[1] = gen.traj[3]
    /\ ret.val[1] # ret.val[2]
    /\ ret.val[1] = ret.val[3]

\* the members of the ensemble agree on the shape of the functional's value
OneShape == \A k \in 1..Len(samples) : Len(samples[k]) = Len(samples[1])

\* C16: the bounds (L, R) of the confidence interval bracket the sample
\* mean of the same ensemble entry by entry: K L <= sum <= K R, for every
\* ensemble, skewed ones included, and every confidence level.
C16_BoundsBracketMean ==
    (ret.op = "sample_conf" /\ ret.err = "none") =>
        /\ Len(ret.val[1]) = Len(samples[1])
        /\ Len(ret.val[2]) = Len(samples[1])
        /\ \A j \in 1..Len(samples[1]) :
               LET sum == SumSeq([k \in 1..Len(samples) |-> samples[k][j]])
               IN  /\ Len(samples) * ret.val[1][j] <= sum
                   /\ sum <= Len(samples) * ret.val[2][j]

C16_Witness ==
    /\ ret.op = "sample_conf"
    /\ ret.err = "none"
    /\ ret.args = <<<<0, 1>>>>
    /\ samples = <<<<0>>, <<0>>, <<1>>>>
    /\ ret.val = <<<<0>>, <<1>>>>

\* C17: the sample values of an ensemble of K members are K results, the
\* k-th that of member k, all of one shape, which mean, std and confidence
\* bounds share; members of different shapes make every one of these
\* operations fail with ShapeMismatchError.
C17_OneResultPerMember ==
    ret.op \in {"sample_f", "sample_mean", "sample_std", "sample_conf"} =>
        IF OneShape
        THEN /\ ret.err = "none"
             /\ ret.op = "sample_f" =>
                    /\ Len(ret.val) = Len(samples)
                    /\ \A k \in 1..Len(samples) : ret.val[k] = samples[k]
             /\ ret.op \in {"sample_mean", "sample_std"} =>
                    Len(ret.val) = Len(samples[1])
             /\ ret.op = "sample_conf" =>
                    /\ Len(ret.val[1]) = Len(samples[1])
                    /\ Len(ret.val[2]) = Len(samples[1])
        ELSE /\ ret.err = "ShapeMismatchError"
             /\ ret.val = <<>>

C17_Witness ==
    /\ ret.op = "sample_f"
    /\ samples = <<<<0, 1>>, <<1, 0>>>>
    /\ ret.val = samples

\* C18: once the model is constructed no step changes its active set,
\* connectivity mode, stored trajectories, count matrices, connected sets or
\* full-to-active map.
C18_ModelImmutable ==
    [][pc = "ok" =>
          UNCHANGED <<active_set, connectivity, dtrajs_full, C_full, C_active,
                      connected_sets, full2active>>]_vars

\* C19: discrete_trajectories_active returns one array per trajectory, in
\* order and of the trajectory's length; a frame holds the position of its
\* label in the active set, or -1 when the label is not in it; an access
\* returns what the access before it returned and leaves the full
\* trajectories as they are.
C19_ActiveTrajectories ==
    /\ []((/\ ret.op = "discrete_trajectories_active"
           /\ IsActiveSet(active_set, nstates_full)) =>
              /\ ret.err = "none"
              /\ Len(ret.val) = Len(dtrajs_full)
              /\ \A k \in 1..Len(ret.val) :
                     /\ Len(ret.val[k]) = Len(dtrajs_full[k])
                     /\ \A t \in 1..Len(ret.val[k]) :
                            IF dtrajs_full[k][t] \in Range(active_set)
                            THEN /\ ret.val[k][t] \in 0..(Len(active_set) - 1)
                                 /\ At(active_set, ret.val[k][t])
                                        = dtrajs_full[k][t]
                            ELSE ret.val[k][t] = 0 - 1)
    /\ [][ret'.op = "discrete_trajectories_active" =>
              /\ dtrajs_full' = dtrajs_full
              /\ dtrajs_active # <<>> => ret'.val = dtrajs_active[1]]_vars

C19_Witness ==
    /\ ret.op = "discrete_trajectories_active"
    /\ lookup = "rebuilt"
    /\ active_set = <<1>>
    /\ \E k \in 1..Len(ret.val) :
           /\ 0 \in Range(ret.val[k])
           /\ (0 - 1) \in Range(ret.val[k])

C21_RaceGivesSequentialTable ==
    pc = "ok" =>
        LET r == IndexStates(dtrajs_full, active_set)
        IN  /\ \A t \in Callers :
                   /\ callers[t].at = "returned" =>
                          r.err = "none" /\ callers[t].got = <<r.val>>
                   /\ callers[t].at = "raised" => r.err # "none"
            /\ active_state_indexes # <<>> =>
                   r.err = "none" /\ active_state_indexes = <<r.val>>

\* both callers missed the cache, both built a table of two rows, the
\* second assignment replaced the first, and both have returned
C21_Witness ==
    /\ pc = "ok"
    /\ nbuilds = 2
    /\ Len(active_set) = 2
    /\ \A t \in Callers : callers[t].at = "returned"
    /\ callers[1].got = callers[2].got
    /\ active_state_indexes = callers[1].got

\* C22: in every state that the public operations reach, assignment to
\* active_set before or after the first table lookup included, the map sends
\* active_set[i] to i for every i, and a cached index table has one row per
\* label of the active set, row i listing the frames of label active_set[i].
\* Stated for models built from an active set of labels 0..nstates_full-1,
\* so that a violation is the work of a later operation.
C22_MapAndTableFollowActiveSet ==
    (pc = "ok" /\ IsActiveSet(arguments.active_set, nstates_full)) =>
        /\ \A i \in 1..Len(active_set) :
               At(full2active, NpIndex(active_set[i], nstates_full)) = i - 1
        /\ active_state_indexes # <<>> =>
               /\ Len(active_state_indexes[1]) = Len(active_set)
               /\ \A i \in 1..Len(active_set) :
                      active_state_indexes[1][i] =
                          SelectSeq(Frames(dtrajs_full, 1),
                                    LAMBDA f : LabelOf(dtrajs_full, f)
                                                   = active_set[i])

\* C23: the model holds copies of dtrajs, active_set, connected_sets, C_full
\* and C_active: no change the caller makes to an object it passed to the
\* constructor changes the stored trajectories, the active set, the
\* connected sets, the two count matrices or the full-to-active map.
C23_ArgumentsAreCopied ==
    [][(pc = "ok" /\ arguments' # arguments) =>
          UNCHANGED <<dtrajs_full, active_set, connected_sets, C_full,
                      C_active, full2active>>]_vars

\* the caller has changed the trajectories it passed; the model's own differ
\* from them and the active trajectories are read off the model's
C23_Witness ==
    /\ pc = "ok"
    /\ nstates_full = NStatesFull
    /\ arguments.nmutations > 0
    /\ arguments.dtrajs # dtrajs_full
    /\ ret.op = "discrete_trajectories_active"
    /\ ret.val = DtrajsActive(full2active, dtrajs_full)
    /\ ret.val # DtrajsActive(full2active, arguments.dtrajs)

\* C24: a call of trajectory_weights leaves the stored trajectories, the
\* stationary distribution and the active set as they were, and a second
\* call right after it returns what the first returned.
C24_WeightsLeaveModel ==
    [][ret'.op = "trajectory_weights" =>
          /\ UNCHANGED <<dtrajs_full, stationary_distribution, active_set>>
          /\ ret' = TrajectoryWeightsResult(nstates_full', active_set',
                                            stationary_distribution',
                                            dtrajs_full')]_vars

\* weights were returned for two trajectories and an active set that leaves
\* out a label, so that the expanded distribution differs from the stored
C24_Witness ==
    /\ pc = "ok"
    /\ ret.op = "trajectory_weights"
    /\ ret.err = "none"
    /\ Len(dtrajs_full) = 2
    /\ Len(active_set) < nstates_full
    /\ StatdistFull(nstates_full, active_set, stationary_distribution)
           # stationary_distribution

====
